---- MODULE Spec2Model ----
(***************************************************************************)
(* Model of the asynchronous conversation-processing pipeline of           *)
(* src/src/main.py: the two admission handlers (upload_single_audio,       *)
(* upload_batch_audio), the background task transcribe_and_analyze, and    *)
(* the progress store they write to.                                       *)
(*                                                                         *)
(* The handlers are asyncio coroutines: the code between two awaits runs   *)
(* atomically, so every action below is one such stretch of code, and the  *)
(* result of the awaited collaborator (it returns or it raises) is the     *)
(* input of the action that resumes the coroutine.                         *)
(***************************************************************************)
EXTENDS Integers, Sequences, FiniteSets, TLC

\* ---------------------------------------------------------------- bounds
MaxTasks == 3
MaxRequests == 2

TaskIds == 1..MaxTasks
Reqs == 1..MaxRequests

\* ------------------------------------------------------ program constants
\* main.py:86  if len(files) > 10
MaxBatch == 10

\* main.py:44 and main.py:91, the accepted content types
SupportedTypes == {"audio/wav", "audio/mp3", "audio/m4a"}

\* the content types an upload is drawn from: one accepted, one not
ContentTypes == {"audio/wav", "text/plain"}

\* current_user.id of the admitting caller
Users == {1}

\* a batch of n files of an accepted type, but for the file at position bad
\* (bad = 0: every file is of an accepted type)
Batch(n, bad) == [i \in 1..n |-> IF i = bad THEN "text/plain" ELSE "audio/wav"]

\* a batch of MaxBatch + 1 files, all of an accepted type
OversizeBatch == Batch(MaxBatch + 1, 0)

\* the file lists a batch upload is drawn from: up to MaxTasks files, all
\* accepted or with the first or the last one refused, and the oversize batch
Batches ==
    UNION {{Batch(n, 0), Batch(n, 1), Batch(n, n)} : n \in 1..MaxTasks}
        \cup {OversizeBatch}

\* str(e) of the exception a step raises
ErrMsg(step) ==
    CASE step = "convert"    -> "conversion failed"
      [] step = "transcribe" -> "transcription failed"
      [] step = "speakers"   -> "speaker analysis failed"
      [] step = "classify"   -> "classification failed"
      [] step = "commit"     -> "commit failed"

\* ------------------------------------------------------- progress store
\* services/progress.py is not part of the sources; its three operations
\* follow section 4.3 of the specification.
DefaultStatus == "running"

create_task(p, t) ==
    [x \in DOMAIN p \cup {t} |->
        IF x = t THEN [stage |-> 0, status |-> "pending", error_detail |-> ""]
        ELSE p[x]]

update_progress(p, t, stage, st, detail) ==
    IF t \in DOMAIN p
    THEN [p EXCEPT ![t] = [stage |-> stage, status |-> st, error_detail |-> detail]]
    ELSE p

\* ---------------------------------------------------------------- state
VARIABLES
    progress,   \* progress_tracker: task id -> {stage, status, error_detail}
    log,        \* per task id, the writes made to the progress store, in order
    nextId,     \* the next value uuid.uuid4() hands out
    req,        \* per request: the handler's position, its locals and response
    run,        \* per task id: the position of its transcribe_and_analyze run
    db,         \* the committed rows of the conversations table, in order of insertion
    out         \* the last answer of GET /conversations/{conversation_id}/export

vars == <<progress, log, nextId, req, run, db, out>>

\* no export was asked for yet
NoOut ==
    [id |-> 0, format |-> "", user |-> 0, code |-> 0, media |-> "", body |-> << >>]

IdleReq ==
    [pc |-> "idle", kind |-> "none", files |-> << >>, idx |-> 0, cur |-> 0,
     user |-> 1, bg |-> << >>, running |-> 0, code |-> 0, body |-> << >>,
     detail |-> ""]

\* a transcript or analysis object: src is the task it was computed for,
\* attached tells whether the speaker list / turn-taking summary is attached
NoDoc == [src |-> 0, attached |-> FALSE]

IdleRun ==
    [pc |-> "none", owner |-> 0, user |-> 0, steps |-> << >>, failed |-> "none",
     transcript |-> NoDoc]

Init ==
    /\ progress = << >>
    /\ log = [t \in TaskIds |-> << >>]
    /\ nextId = 1
    /\ req = [r \in Reqs |-> IdleReq]
    /\ run = [t \in TaskIds |-> IdleRun]
    /\ db = << >>
    /\ out = NoOut

\* the write a progress-store call leaves in the history of task t
Logged(l, t, stage, st) == [l EXCEPT ![t] = Append(@, [stage |-> stage, status |-> st])]

\* the progress store together with the history of the writes made to it
Store == [p |-> progress, l |-> log]

\* progress_tracker.create_task(task_id)
Create(S, t) == [p |-> create_task(S.p, t), l |-> Logged(S.l, t, 0, "pending")]

\* progress_tracker.update_progress(task_id, stage, status, error_detail)
Update(S, t, stage, st, detail) ==
    [p |-> update_progress(S.p, t, stage, st, detail), l |-> Logged(S.l, t, stage, st)]

\* task ids still to be generated by the batch handlers that are in their loop
Reserved ==
    LET Left(r) == IF req[r].pc = "converting" /\ req[r].kind = "batch"
                   THEN Len(req[r].files) - req[r].idx ELSE 0
        Sum[n \in 0..MaxRequests] == IF n = 0 THEN 0 ELSE Left(n) + Sum[n - 1]
    IN  Sum[MaxRequests]

\* uuid.uuid4() can still produce n fresh ids within the bound
IdsLeft(n) == nextId + Reserved + n - 1 <= MaxTasks

\* request r arrives: requests are numbered in the order of their arrival
Arrives(r) ==
    /\ req[r].pc = "idle"
    /\ \A q \in Reqs : q < r => req[q].pc # "idle"

\* ------------------------------------------------------------ admission
\* the content type is not looked at
ValidType_Any(ct) == TRUE

\* main.py:44, main.py:91
ValidType(ct) == ct \in SupportedTypes

\* main.py:86-95: the batch is refused as a whole
BatchRejected(files) ==
    \/ Len(files) > MaxBatch
    \/ \E i \in 1..Len(files) : ~ValidType(files[i])

\* the id is generated but create_task is not called
AdmitTask_NoCreate(S, t) == S

\* main.py:48-49, main.py:99-100: the id is registered as soon as it exists
AdmitTask(S, t) == Create(S, t)

\* add_task is never reached
ScheduleAfter_Never(bg, t, outcome) == bg

\* add_task is called twice for a converted file
ScheduleAfter_Twice(bg, t, outcome) ==
    IF outcome = "ok" THEN Append(Append(bg, t), t) ELSE bg

\* add_task outside the try block: the run is queued whatever the conversion did
ScheduleAfter_Always(bg, t, outcome) == Append(bg, t)

\* main.py:54-63 / 72, main.py:103-110 / 117: add_task is reached only when
\* process_audio_file returned
ScheduleAfter(bg, t, outcome) == IF outcome = "ok" THEN Append(bg, t) ELSE bg

\* main.py:72-73, main.py:117-118: the except branch of the admission
AfterConversion(S, t, outcome) ==
    IF outcome = "ok" THEN S
    ELSE Update(S, t, 0, "error", ErrMsg("convert"))

\* the except branch answers like the try branch
SingleCode_Always202(outcome) == 202

\* main.py:65-74: what upload_single_audio answers
SingleCode(outcome) == IF outcome = "ok" THEN 202 ELSE 500

SingleBody(t, outcome) ==
    IF outcome = "ok" THEN <<[task_id |-> t, error |-> ""]>> ELSE << >>

SingleDetail(outcome) == IF outcome = "ok" THEN "" ELSE ErrMsg("convert")

\* main.py:112-123: the entry upload_batch_audio appends for one file
BatchEntry(t, outcome) ==
    [task_id |-> t, error |-> IF outcome = "ok" THEN "" ELSE ErrMsg("convert")]

\* main.py:44-45
SingleReject(r, ct, u) ==
    /\ Arrives(r)
    /\ ~ValidType(ct)
    /\ req' = [req EXCEPT ![r] = [@ EXCEPT !.pc = "responded", !.kind = "single",
                  !.files = <<ct>>, !.user = u, !.code = 400,
                  !.detail = "Invalid file format"]]
    /\ UNCHANGED <<progress, log, nextId, run, db, out>>

\* main.py:44-54, up to the await of process_audio_file
SingleAdmit(r, ct, u) ==
    /\ Arrives(r)
    /\ ValidType(ct)
    /\ IdsLeft(1)
    /\ LET t  == nextId
           S1 == Update(AdmitTask(Store, t), t, 0, DefaultStatus, "")
       IN
        /\ nextId' = nextId + 1
        /\ progress' = S1.p
        /\ log' = S1.l
        /\ run' = [run EXCEPT ![t] = [@ EXCEPT !.pc = "converting", !.owner = r,
                      !.user = u, !.steps = <<"convert">>]]
        /\ req' = [req EXCEPT ![r] = [@ EXCEPT !.pc = "converting", !.kind = "single",
                      !.files = <<ct>>, !.user = u, !.idx = 1, !.cur = t]]
    /\ UNCHANGED <<db, out>>

\* main.py:54-74, from the return of process_audio_file to the response
SingleConverted(r, outcome) ==
    /\ req[r].pc = "converting"
    /\ req[r].kind = "single"
    /\ LET t   == req[r].cur
           nbg == ScheduleAfter(req[r].bg, t, outcome)
           S1  == AfterConversion(Store, t, outcome)
       IN
        /\ progress' = S1.p
        /\ log' = S1.l
        /\ run' = [run EXCEPT ![t] = [@ EXCEPT
                      !.pc = IF Len(nbg) > Len(req[r].bg) THEN "scheduled" ELSE "failed",
                      !.failed = IF outcome = "ok" THEN "none" ELSE "convert"]]
        /\ req' = [req EXCEPT ![r] = [@ EXCEPT !.pc = "responded", !.bg = nbg,
                      !.code = SingleCode(outcome), !.body = SingleBody(t, outcome),
                      !.detail = SingleDetail(outcome)]]
    /\ UNCHANGED <<nextId, db, out>>

\* main.py:86-95
BatchReject(r, files, u) ==
    /\ Arrives(r)
    /\ BatchRejected(files)
    /\ req' = [req EXCEPT ![r] = [@ EXCEPT !.pc = "responded", !.kind = "batch",
                  !.files = files, !.user = u, !.code = 400,
                  !.detail = IF Len(files) > MaxBatch
                             THEN "Maximum 10 files per batch"
                             ELSE "Invalid file format"]]
    /\ UNCHANGED <<progress, log, nextId, run, db, out>>

\* main.py:86-103, up to the await of process_audio_file for the first file
BatchAdmit(r, files, u) ==
    /\ Arrives(r)
    /\ ~BatchRejected(files)
    /\ IdsLeft(Len(files))
    /\ LET t  == nextId
           S1 == AdmitTask(Store, t)
       IN
        /\ nextId' = nextId + 1
        /\ progress' = S1.p
        /\ log' = S1.l
        /\ run' = [run EXCEPT ![t] = [@ EXCEPT !.pc = "converting", !.owner = r,
                      !.user = u, !.steps = <<"convert">>]]
        /\ req' = [req EXCEPT ![r] = [@ EXCEPT !.pc = "converting", !.kind = "batch",
                      !.files = files, !.user = u, !.idx = 1, !.cur = t]]
    /\ UNCHANGED <<db, out>>

\* main.py:98-128, from the return of process_audio_file for one file to the
\* await for the next file, or to the response after the last file
BatchConverted(r, outcome) ==
    /\ req[r].pc = "converting"
    /\ req[r].kind = "batch"
    /\ LET t    == req[r].cur
           nbg  == ScheduleAfter(req[r].bg, t, outcome)
           S1   == AfterConversion(Store, t, outcome)
           r1   == [run EXCEPT ![t] = [@ EXCEPT
                       !.pc = IF Len(nbg) > Len(req[r].bg) THEN "scheduled" ELSE "failed",
                       !.failed = IF outcome = "ok" THEN "none" ELSE "convert"]]
           body == Append(req[r].body, BatchEntry(t, outcome))
       IN
        IF req[r].idx < Len(req[r].files)
        THEN LET t2 == nextId
                 S2 == AdmitTask(S1, t2)
             IN
            /\ nextId' = nextId + 1
            /\ progress' = S2.p
            /\ log' = S2.l
            /\ run' = [r1 EXCEPT ![t2] = [@ EXCEPT !.pc = "converting", !.owner = r,
                          !.user = req[r].user, !.steps = <<"convert">>]]
            /\ req' = [req EXCEPT ![r] = [@ EXCEPT !.bg = nbg, !.body = body,
                          !.idx = @ + 1, !.cur = t2]]
        ELSE
            /\ nextId' = nextId
            /\ progress' = S1.p
            /\ log' = S1.l
            /\ run' = r1
            /\ req' = [req EXCEPT ![r] = [@ EXCEPT !.pc = "responded", !.bg = nbg,
                          !.body = body, !.code = 202]]
    /\ UNCHANGED <<db, out>>

\* ------------------------------------------------ transcribe_and_analyze
\* the two marks in the opposite order
StartStages_Swapped(S, t) ==
    Update(Update(S, t, 2, DefaultStatus, ""), t, 1, DefaultStatus, "")

\* main.py:270-274: both stages are marked before transcribe_audio is awaited
StartStages(S, t) ==
    Update(Update(S, t, 1, DefaultStatus, ""), t, 2, DefaultStatus, "")

\* the except branch drops str(e)
OnError_NoDetail(S, t, step) == Update(S, t, -1, "error", "")

\* main.py:307-308
OnError(S, t, step) == Update(S, t, -1, "error", ErrMsg(step))

\* main.py:275-288 and 307-308: stage 3 is marked once the transcript and the
\* turn-taking summary exist, before classify_dialogue is awaited
AfterTranscribe(S, t, outcome) ==
    CASE outcome = "ok"              -> Update(S, t, 3, DefaultStatus, "")
      [] outcome = "transcribe_fail" -> OnError(S, t, "transcribe")
      [] outcome = "speakers_fail"   -> OnError(S, t, "speakers")

\* stage 4 is marked without looking at the outcome of the commit
AfterClassify_AlwaysCompleted(S, t, outcome) ==
    CASE outcome = "ok"            -> Update(S, t, 4, "completed", "")
      [] outcome = "classify_fail" -> OnError(S, t, "classify")
      [] outcome = "commit_fail"   -> Update(S, t, 4, "completed", "")

\* the last mark leaves the status argument out
AfterClassify_NoStatus(S, t, outcome) ==
    CASE outcome = "ok"            -> Update(S, t, 4, DefaultStatus, "")
      [] outcome = "classify_fail" -> OnError(S, t, "classify")
      [] outcome = "commit_fail"   -> OnError(S, t, "commit")

\* main.py:289-308
AfterClassify(S, t, outcome) ==
    CASE outcome = "ok"            -> Update(S, t, 4, "completed", "")
      [] outcome = "classify_fail" -> OnError(S, t, "classify")
      [] outcome = "commit_fail"   -> OnError(S, t, "commit")

\* main.py:278-279: the transcript with the speaker list attached
Transcript(t) == [src |-> t, attached |-> TRUE]

\* main.py:289-290: the analysis with the turn-taking summary attached
Analysis(t) == [src |-> t, attached |-> TRUE]

\* main.py:293-298: ConversationCreate(user_id, file_path, transcript, analysis);
\* the file path stands for the recording of task t
Conversation(t, u, tr, an) ==
    [file_path |-> t, user_id |-> u, transcript |-> tr, analysis |-> an]

\* the row is written although the commit raised
StoreResults_Partial(d, t, u, tr, an, outcome) ==
    IF outcome \in {"ok", "commit_fail"} THEN Append(d, Conversation(t, u, tr, an)) ELSE d

\* main.py:300-302: db.add and db.commit; a commit that raises leaves no row
StoreResults(d, t, u, tr, an, outcome) ==
    IF outcome = "ok" THEN Append(d, Conversation(t, u, tr, an)) ELSE d

\* main.py:309: the run re-raises; the loop over the request's background
\* tasks (for task in self.tasks: await task()) ends with that exception and
\* the tasks still in the list are never called
BgAfterRaise(bg) == << >>

\* the steps a resumed run goes through before it suspends again or ends
StepsAfterTranscribe(outcome) ==
    CASE outcome = "ok"              -> <<"speakers", "classify">>
      [] outcome = "transcribe_fail" -> << >>
      [] outcome = "speakers_fail"   -> <<"speakers">>

StepsAfterClassify(outcome) ==
    CASE outcome = "ok"            -> <<"commit">>
      [] outcome = "classify_fail" -> << >>
      [] outcome = "commit_fail"   -> <<"commit">>

FailedStep(outcome) ==
    CASE outcome = "ok"              -> "none"
      [] outcome = "transcribe_fail" -> "transcribe"
      [] outcome = "speakers_fail"   -> "speakers"
      [] outcome = "classify_fail"   -> "classify"
      [] outcome = "commit_fail"     -> "commit"

\* the response has been sent with its background tasks attached, and the
\* previous task of the list has returned
RunnerReady(r) ==
    /\ req[r].pc = "responded"
    /\ req[r].code = 202
    /\ req[r].running = 0
    /\ req[r].bg # << >>

\* main.py:260-275, up to the await of transcribe_audio
PipelineStart(r) ==
    /\ RunnerReady(r)
    /\ LET t  == Head(req[r].bg)
           S1 == StartStages(Store, t)
       IN
        /\ progress' = S1.p
        /\ log' = S1.l
        /\ run' = [run EXCEPT ![t] = [@ EXCEPT !.pc = "transcribing",
                      !.steps = Append(@, "transcribe")]]
        /\ req' = [req EXCEPT ![r] = [@ EXCEPT !.bg = Tail(@), !.running = t]]
    /\ UNCHANGED <<nextId, db, out>>

\* main.py:275-289, from the return of transcribe_audio to the await of
\* classify_dialogue, or to the except branch
TranscribeReturn(t, outcome) ==
    /\ run[t].pc = "transcribing"
    /\ LET r  == run[t].owner
           S1 == AfterTranscribe(Store, t, outcome)
       IN
        /\ progress' = S1.p
        /\ log' = S1.l
        /\ run' = [run EXCEPT ![t] = [@ EXCEPT
                      !.pc = IF outcome = "ok" THEN "classifying" ELSE "failed",
                      !.steps = @ \o StepsAfterTranscribe(outcome),
                      !.failed = FailedStep(outcome),
                      !.transcript = IF outcome = "ok" THEN Transcript(t) ELSE @]]
        /\ req' = IF outcome = "ok" THEN req
                  ELSE [req EXCEPT ![r] = [@ EXCEPT !.running = 0,
                                              !.bg = BgAfterRaise(@)]]
    /\ UNCHANGED <<nextId, db, out>>

\* main.py:289-309, from the return of classify_dialogue to the end of the run
ClassifyReturn(t, outcome) ==
    /\ run[t].pc = "classifying"
    /\ LET r  == run[t].owner
           S1 == AfterClassify(Store, t, outcome)
       IN
        /\ progress' = S1.p
        /\ log' = S1.l
        /\ db' = StoreResults(db, t, run[t].user, run[t].transcript, Analysis(t),
                              IF outcome = "classify_fail" THEN "skip" ELSE outcome)
        /\ run' = [run EXCEPT ![t] = [@ EXCEPT
                      !.pc = IF outcome = "ok" THEN "done" ELSE "failed",
                      !.steps = @ \o StepsAfterClassify(outcome),
                      !.failed = FailedStep(outcome)]]
        /\ req' = [req EXCEPT ![r] = [@ EXCEPT !.running = 0,
                      !.bg = IF outcome = "ok" THEN @ ELSE BgAfterRaise(@)]]
    /\ UNCHANGED <<nextId, out>>

\* -------------------------------------------------------- progress query
\* progress_tracker.get_progress(task_id): the stored snapshot, or, for an id
\* that was never created, the mapping with the key "error" that main.py:139
\* tests for
get_progress(p, t) ==
    IF t \in DOMAIN p THEN p[t] ELSE [error |-> "Task not found"]

\* a task in status error is taken for an unknown one
NotFound_ByStatus(g) == "error" \in DOMAIN g \/ g.status = "error"

\* main.py:139  if "error" in progress
NotFound(g) == "error" \in DOMAIN g

\* main.py:130-141: the answer of GET /progress/{task_id}; the handler reads
\* the store and writes nothing
get_task_progress(p, t) ==
    LET g == get_progress(p, t) IN
    IF NotFound(g) THEN [code |-> 404, detail |-> "Task not found"]
    ELSE [code |-> 200, body |-> g]

\* --------------------------------------------------------------- export
\* the longest transcript and analysis segment lists of an exported record
MaxSegs == 2

\* transcript segments; times are in milliseconds
TSegments ==
    { [start |-> 0,    speaker |-> "salesperson", text |-> "hello"],
      [start |-> 1250, speaker |-> "customer",    text |-> "hi"],
      [start |-> 1254, speaker |-> "customer",    text |-> "how much"] }

\* analysis segments, two of them with the same start
ASegments ==
    { [start |-> 0,    classification |-> [phase |-> "introduction", sentiment |-> "positive"]],
      [start |-> 1250, classification |-> [phase |-> "pricing",      sentiment |-> "negative"]],
      [start |-> 1254, classification |-> [phase |-> "closing",      sentiment |-> "neutral"]],
      [start |-> 0,    classification |-> [phase |-> "closing",      sentiment |-> "negative"]] }

SeqsOf(S, n) == UNION {[1..k -> S] : k \in 0..n}

\* analysis["summary"]; the two mappings keep the order of their keys
Summaries ==
    { [duration |-> 0, phase_distribution |-> << >>, sentiment_summary |-> << >>],
      [duration |-> 2504,
       phase_distribution |-> << [key |-> "introduction", value |-> 1250],
                                 [key |-> "pricing", value |-> 1254] >>,
       sentiment_summary |-> << [key |-> "positive", value |-> 1],
                                [key |-> "negative", value |-> 1] >>] }

\* analysis["turn_taking"]
TurnTaking ==
    [total_turns |-> 2, salesperson_stats |-> [total_turns |-> 1],
     customer_stats |-> [total_turns |-> 1]]

\* the users that own or ask for a record
ExportUsers == {1, 2}

\* the rows of the conversations table (models/database.py:21-31)
StoredRows ==
    { [user_id |-> u, file_path |-> "uploads/a.wav", created_at |-> 7,
       transcript |-> [segments |-> ts],
       analysis |-> [segments |-> an, summary |-> m, turn_taking |-> TurnTaking]] :
         u \in ExportUsers, ts \in SeqsOf(TSegments, MaxSegs),
         an \in SeqsOf(ASegments, MaxSegs), m \in Summaries }

\* the tables an export reads: one row, whose id is 1
ExportTables == {<<c>> : c \in StoredRows}

\* the conversation ids asked for: the row and an id without row
ExportIds == {1, 2}

\* the format flags asked for
Formats == {"json", "csv", "txt", "xml"}

\* main.py:200
SupportedFormats == {"json", "csv", "txt"}

\* the owner is not compared
Lookup_AnyOwner(d, id, u) == IF id \in 1..Len(d) THEN id ELSE 0

\* main.py:192-195: the row with that id and that owner, 0 for None
Lookup(d, id, u) == IF id \in 1..Len(d) /\ d[id].user_id = u THEN id ELSE 0

\* f"{x:.2f}": milliseconds to hundredths of a second (no value used here
\* lies half-way between two hundredths)
Fmt2(ms) == (ms + 5) \div 10

\* the starts are compared as they are printed
MatchIndex_Printed(asegs, start) ==
    LET M == {i \in 1..Len(asegs) : Fmt2(asegs[i].start) = Fmt2(start)} IN
    IF M = {} THEN 0 ELSE CHOOSE i \in M : \A j \in M : i <= j

\* main.py:218-219: next(... for s in analysis["segments"] if s["start"] ==
\* segment["start"]): the first analysis segment with that start; 0 when the
\* generator is exhausted
MatchIndex(asegs, start) ==
    LET M == {i \in 1..Len(asegs) : asegs[i].start = start} IN
    IF M = {} THEN 0 ELSE CHOOSE i \in M : \A j \in M : i <= j

\* an exception leaves the handler: 500 without content
Raised == [code |-> 500, media |-> "", body |-> << >>]

\* main.py:217-220: one line of csv_content
CsvRow(seg, asegs) ==
    LET c == asegs[MatchIndex(asegs, seg.start)].classification IN
    [timestamp |-> Fmt2(seg.start), speaker |-> seg.speaker, text |-> seg.text,
     phase |-> c.phase, sentiment |-> c.sentiment]

\* main.py:214-228: next() without default raises when no analysis segment
\* has the start of a transcript segment
ExportCsv(c) ==
    LET ts == c.transcript.segments
        an == c.analysis.segments
    IN
    IF \E i \in 1..Len(ts) : MatchIndex(an, ts[i].start) = 0
    THEN Raised
    ELSE [code |-> 200, media |-> "text/csv",
          body |-> [i \in 1..Len(ts) |-> CsvRow(ts[i], an)]]

\* main.py:229-258
ExportTxt(c, id) ==
    LET ts == c.transcript.segments
        sm == c.analysis.summary
        tt == c.analysis.turn_taking
    IN
    [code |-> 200, media |-> "text/plain",
     body |-> << [id |-> id, date |-> c.created_at,
                  transcript |-> [i \in 1..Len(ts) |->
                      [timestamp |-> Fmt2(ts[i].start), speaker |-> ts[i].speaker,
                       text |-> ts[i].text]],
                  duration |-> Fmt2(sm.duration),
                  phases |-> [i \in 1..Len(sm.phase_distribution) |->
                      [key |-> sm.phase_distribution[i].key,
                       value |-> Fmt2(sm.phase_distribution[i].value)]],
                  sentiments |-> sm.sentiment_summary,
                  total_turns |-> tt.total_turns,
                  salesperson_turns |-> tt.salesperson_stats.total_turns,
                  customer_turns |-> tt.customer_stats.total_turns] >>]

\* the tokens of a JSON text
Punct(x) == [k |-> "punct", v |-> x]

Key(x) == [k |-> "key", v |-> x]

Str(x) == [k |-> "str", v |-> x]

\* the decimal digits of a natural number, the most significant first
RECURSIVE Digits(_)
Digits(n) == IF n < 10 THEN <<n>> ELSE Append(Digits(n \div 10), n % 10)

\* the natural number a sequence of decimal digits stands for
RECURSIVE FromDigits(_)
FromDigits(ds) ==
    IF ds = << >> THEN 0 ELSE 10 * FromDigits(SubSeq(ds, 1, Len(ds) - 1)) + ds[Len(ds)]

\* a number is printed as it is printed elsewhere in the handler
DumpNumber_2f(n) == [k |-> "num", v |-> Digits(Fmt2(n) * 10)]

\* json.dumps of a number: its decimal digits
DumpNumber(n) == [k |-> "num", v |-> Digits(n)]

\* json.loads of a number
LoadNumber(tok) == FromDigits(tok.v)

\* datetime.isoformat()
IsoFormat(ts) == ToString(ts)

RECURSIVE Flatten(_)
Flatten(ss) == IF ss = << >> THEN << >> ELSE Head(ss) \o Flatten(Tail(ss))

\* json.dumps of a transcript segment
DumpTSeg(s) ==
    <<Punct("{"), Key("start"), DumpNumber(s.start), Key("speaker"), Str(s.speaker),
      Key("text"), Str(s.text), Punct("}")>>

\* json.dumps of an analysis segment
DumpASeg(s) ==
    <<Punct("{"), Key("start"), DumpNumber(s.start), Key("classification"),
      Punct("{"), Key("phase"), Str(s.classification.phase),
      Key("sentiment"), Str(s.classification.sentiment), Punct("}"), Punct("}")>>

\* json.dumps of a mapping from names to numbers
DumpPairs(m) ==
    <<Punct("{")>>
        \o Flatten([i \in 1..Len(m) |-> <<Key(m[i].key), DumpNumber(m[i].value)>>])
        \o <<Punct("}")>>

\* main.py:205-212: the content handed to JSONResponse
JsonContent(c) ==
    [transcript |-> c.transcript,
     analysis |-> c.analysis,
     metadata |-> [created_at |-> IsoFormat(c.created_at), file_path |-> c.file_path]]

\* JSONResponse.render: json.dumps of the content
Dumps(x) ==
    <<Punct("{"), Key("transcript"), Punct("{"), Key("segments"), Punct("[")>>
        \o Flatten([i \in 1..Len(x.transcript.segments) |-> DumpTSeg(x.transcript.segments[i])])
        \o <<Punct("]"), Punct("}"), Key("analysis"), Punct("{"), Key("segments"), Punct("[")>>
        \o Flatten([i \in 1..Len(x.analysis.segments) |-> DumpASeg(x.analysis.segments[i])])
        \o <<Punct("]"), Key("summary"), Punct("{"),
             Key("duration"), DumpNumber(x.analysis.summary.duration),
             Key("phase_distribution")>>
        \o DumpPairs(x.analysis.summary.phase_distribution)
        \o <<Key("sentiment_summary")>>
        \o DumpPairs(x.analysis.summary.sentiment_summary)
        \o <<Punct("}"), Key("turn_taking"), Punct("{"),
             Key("total_turns"), DumpNumber(x.analysis.turn_taking.total_turns),
             Key("salesperson_stats"), Punct("{"), Key("total_turns"),
             DumpNumber(x.analysis.turn_taking.salesperson_stats.total_turns), Punct("}"),
             Key("customer_stats"), Punct("{"), Key("total_turns"),
             DumpNumber(x.analysis.turn_taking.customer_stats.total_turns), Punct("}"),
             Punct("}"), Punct("}"),
             Key("metadata"), Punct("{"), Key("created_at"), Str(x.metadata.created_at),
             Key("file_path"), Str(x.metadata.file_path), Punct("}"), Punct("}")>>

\* the first position from p on that holds token tok
Find(toks, p, tok) ==
    LET Is(i) == toks[i].k = tok.k /\ toks[i].v = tok.v IN
    CHOOSE i \in p..Len(toks) : Is(i) /\ \A j \in p..(i - 1) : ~Is(j)

\* json.loads of the object that starts at position p
LoadTSeg(toks, p) ==
    [start |-> LoadNumber(toks[p + 2]), speaker |-> toks[p + 4].v, text |-> toks[p + 6].v]

LoadASeg(toks, p) ==
    [start |-> LoadNumber(toks[p + 2]),
     classification |-> [phase |-> toks[p + 6].v, sentiment |-> toks[p + 8].v]]

\* json.loads of the mapping whose "{" is at position p and "}" at position e
LoadPairs(toks, p, e) ==
    [i \in 1..((e - p - 1) \div 2) |->
        [key |-> toks[p + 2 * i - 1].v, value |-> LoadNumber(toks[p + 2 * i])]]

\* json.loads of an exported text: the transcript segments, the analysis
\* segments and the analysis summary
Loads(toks) ==
    LET c1 == Find(toks, 5, Punct("]"))
        o2 == c1 + 5
        c2 == Find(toks, o2, Punct("]"))
        p1 == c2 + 6
        e1 == Find(toks, p1, Punct("}"))
        p2 == e1 + 2
        e2 == Find(toks, p2, Punct("}"))
    IN
    [transcript |-> [segments |->
        [i \in 1..((c1 - 6) \div 8) |-> LoadTSeg(toks, 6 + 8 * (i - 1))]],
     analysis |->
        [segments |->
            [i \in 1..((c2 - o2 - 1) \div 11) |-> LoadASeg(toks, o2 + 1 + 11 * (i - 1))],
         summary |->
            [duration |-> LoadNumber(toks[c2 + 4]),
             phase_distribution |-> LoadPairs(toks, p1, e1),
             sentiment_summary |-> LoadPairs(toks, p2, e2)]]]

\* main.py:181-258: the answer of the export handler
export_conversation(d, id, fmt, u) ==
    LET c == Lookup(d, id, u) IN
    IF c = 0 THEN [code |-> 404, media |-> "", body |-> << >>]
    ELSE IF fmt \notin SupportedFormats THEN [code |-> 400, media |-> "", body |-> << >>]
    ELSE IF fmt = "json"
         THEN [code |-> 200, media |-> "application/json",
               body |-> Dumps(JsonContent(d[c]))]
    ELSE IF fmt = "csv" THEN ExportCsv(d[c])
    ELSE ExportTxt(d[c], id)

\* main.py:181-258: one export request of user u; the handler only reads
ExportConversation(id, fmt, u) ==
    /\ LET a == export_conversation(db, id, fmt, u) IN
        out' = [id |-> id, format |-> fmt, user |-> u, code |-> a.code,
                media |-> a.media, body |-> a.body]
    /\ UNCHANGED <<progress, log, nextId, req, run, db>>

\* the table holds one conversation and no upload is in progress
ExportInit ==
    /\ progress = << >>
    /\ log = [t \in TaskIds |-> << >>]
    /\ nextId = 1
    /\ req = [r \in Reqs |-> IdleReq]
    /\ run = [t \in TaskIds |-> IdleRun]
    /\ db \in ExportTables
    /\ out = NoOut

ExportNext ==
    \E id \in ExportIds, fmt \in Formats, u \in ExportUsers : ExportConversation(id, fmt, u)

ExportSpec == ExportInit /\ [][ExportNext]_vars

\* ---------------------------------------------------------- specification
Next ==
    \/ \E r \in Reqs, ct \in ContentTypes, u \in Users : SingleReject(r, ct, u)
    \/ \E r \in Reqs, ct \in ContentTypes, u \in Users : SingleAdmit(r, ct, u)
    \/ \E r \in Reqs, o \in {"ok", "fail"} : SingleConverted(r, o)
    \/ \E r \in Reqs, fs \in Batches, u \in Users : BatchReject(r, fs, u)
    \/ \E r \in Reqs, fs \in Batches, u \in Users : BatchAdmit(r, fs, u)
    \/ \E r \in Reqs, o \in {"ok", "fail"} : BatchConverted(r, o)
    \/ \E r \in Reqs : PipelineStart(r)
    \/ \E t \in TaskIds, o \in {"ok", "transcribe_fail", "speakers_fail"} :
           TranscribeReturn(t, o)
    \/ \E t \in TaskIds, o \in {"ok", "classify_fail", "commit_fail"} :
           ClassifyReturn(t, o)

Spec == Init /\ [][Next]_vars

\* ------------------------------------------------------------ properties
Range(f) == {f[i] : i \in DOMAIN f}

Admitted == DOMAIN progress

Terminal(t) == t \in Admitted /\ progress[t].status \in {"completed", "error"}

\* the committed rows that belong to the recording of task t
RowsOf(t) == {i \in 1..Len(db) : db[i].file_path = t}

\* the stages written for task t, but for the writes that set status error
StageWrites(t) == SelectSeq(log[t], LAMBDA w : w.status # "error")

Written(t, k) == \E i \in 1..Len(log[t]) : log[t][i].stage = k /\ log[t][i].status # "error"

\* step s of task t is the one its coroutine is suspended on
Awaiting(t, s) ==
    \/ run[t].pc = "converting" /\ s = "convert"
    \/ run[t].pc = "transcribing" /\ s = "transcribe"
    \/ run[t].pc = "classifying" /\ s = "classify"

\* step s of task t was invoked and has returned without raising
Succeeded(t, s) ==
    /\ s \in Range(run[t].steps)
    /\ run[t].failed # s
    /\ ~Awaiting(t, s)

\* C1: a task one of whose steps (conversion, transcription, speaker and
\* turn-taking analysis, classification, commit) has failed never has status
\* completed and never has a persisted conversation row.
C1_FailedNeverCompleted ==
    \A t \in TaskIds :
        run[t].failed # "none" =>
            /\ t \in Admitted => progress[t].status # "completed"
            /\ RowsOf(t) = {}

\* C1 witness: the commit of a run has raised
C1_Witness ==
    \E t \in Admitted : run[t].failed = "commit" /\ progress[t].status = "error"

\* C2 as stated: the stages written for a task, the error write left out,
\* are strictly increasing, so that no stage is written twice.
C2_StrictlyIncreasing ==
    \A t \in TaskIds :
        LET w == StageWrites(t) IN
        \A i \in 1..(Len(w) - 1) : w[i].stage < w[i + 1].stage

\* C2 amended: the stages written for a task, the error write left out, never
\* decrease, and the only stage written twice is stage 0 of a single upload
\* (by create_task, then by update_progress(task_id, 0)); every later stage is
\* written at most once.
C2_NonDecreasing ==
    \A t \in TaskIds :
        LET w == StageWrites(t) IN
        \A i \in 1..(Len(w) - 1) :
            \/ w[i].stage < w[i + 1].stage
            \/ /\ i = 1
               /\ w[1].stage = 0
               /\ w[2].stage = 0
               /\ req[run[t].owner].kind = "single"

\* C2 witness: a single upload has been through every stage
C2_Witness ==
    \E t \in Admitted :
        /\ req[run[t].owner].kind = "single"
        /\ Len(StageWrites(t)) = 6
        /\ progress[t].stage = 4

C4_ErrorStops ==
    \A t \in TaskIds :
        run[t].failed # "none" =>
            /\ t \in Admitted
            /\ progress[t].status = "error"
            /\ progress[t].error_detail = ErrMsg(run[t].failed)
            /\ run[t].pc = "failed"
            /\ run[t].steps[Len(run[t].steps)] = run[t].failed

\* C4 witness: classification has failed in one task, conversion in another
C4_Witness ==
    \E t, u \in Admitted : run[t].failed = "classify" /\ run[u].failed = "convert"

\* the tasks whose run was handed to add_task by request r and not called yet
Queued(r) == Range(req[r].bg)

\* C5: when a step of one task fails, the progress-store entry of every other
\* task is left as it was, and every other task whose run is queued is still
\* going to be run.
C5_FailureIsolated ==
    [][\A t \in TaskIds :
          (run[t].failed = "none" /\ run'[t].failed # "none") =>
              \A u \in TaskIds \ {t} :
                  /\ u \in Admitted => progress'[u] = progress[u]
                  /\ run[u].pc = "scheduled" => u \in Queued(run[u].owner)']_vars

\* no handler is suspended and no background task is running or still to run
Quiescent ==
    \A r \in Reqs :
        /\ req[r].pc # "converting"
        /\ req[r].running = 0
        /\ ~RunnerReady(r)

\* C6: every admitted task reaches status completed or error; stated on the
\* states in which nothing is left to run: there every admitted task is
\* completed or in error.
C6_AllTerminate == Quiescent => \A t \in Admitted : Terminal(t)

\* C7: a completed task has exactly one committed row, holding its transcript
\* (speaker list attached) and its analysis (turn-taking summary attached);
\* no task has more than one row, and the rows are exactly those of the
\* completed tasks.
C7_OneRecord ==
    /\ \A t \in Admitted :
          progress[t].status = "completed" =>
              /\ Cardinality(RowsOf(t)) = 1
              /\ \A i \in RowsOf(t) :
                    /\ db[i].transcript = [src |-> t, attached |-> TRUE]
                    /\ db[i].analysis = [src |-> t, attached |-> TRUE]
                    /\ db[i].user_id = run[t].user
    /\ \A t \in TaskIds : Cardinality(RowsOf(t)) <= 1
    /\ Len(db) = Cardinality({t \in Admitted : progress[t].status = "completed"})

\* C7 witness: two tasks are completed
C7_Witness ==
    /\ Len(db) = 2
    /\ \E t, u \in Admitted :
          t # u /\ progress[t].status = "completed" /\ progress[u].status = "completed"

\* the submission of request r is one the admission has to refuse
Refused(q) ==
    \/ q.kind = "single" /\ q.files[1] \notin SupportedTypes
    \/ q.kind = "batch" /\ Len(q.files) > MaxBatch
    \/ q.kind = "batch" /\ \E i \in 1..Len(q.files) : q.files[i] \notin SupportedTypes

\* C8: the step in which a refused submission (a single upload of an
\* unsupported type, a batch of more than 10 files, a batch with a member of
\* an unsupported type) arrives answers 400 and changes nothing else: no id
\* is generated, no progress entry is created, no file is converted and no
\* run is queued.
C8_RejectionChangesNothing ==
    [][\A r \in Reqs :
          (req[r].pc = "idle" /\ req'[r].pc # "idle" /\ Refused(req'[r])) =>
              /\ req'[r].pc = "responded"
              /\ req'[r].code = 400
              /\ req'[r].bg = << >>
              /\ req'[r].body = << >>
              /\ UNCHANGED <<progress, log, nextId, run, db, out>>]_vars

\* C8 witness: a batch of 11 files and a batch whose last file is of an
\* unsupported type have both been refused
C8_Witness ==
    \E r, q \in Reqs :
        /\ req[r].code = 400 /\ Len(req[r].files) = MaxBatch + 1
        /\ req[q].code = 400 /\ req[q].kind = "batch" /\ Len(req[q].files) = 2
        /\ req[q].files[1] \in SupportedTypes

\* the task ids the response of request r carries
Returned(r) ==
    IF req[r].pc = "responded" THEN {req[r].body[i].task_id : i \in 1..Len(req[r].body)}
    ELSE {}

\* the run of task t has begun
RunBegun(t) == "transcribe" \in Range(run[t].steps)

C10_RegisteredFirst ==
    \A t \in TaskIds :
        ( \/ \E r \in Reqs : t \in Returned(r) \cup Queued(r) \/ req[r].running = t
          \/ run[t].steps # << >> ) =>
            /\ t \in Admitted
            /\ log[t][1] = [stage |-> 0, status |-> "pending"]

\* C10 witness: a recording is being converted and its id is registered at
\* stage 0
C10_Witness ==
    \E t \in Admitted :
        /\ run[t].pc = "converting"
        /\ progress[t] = [stage |-> 0, status |-> "pending", error_detail |-> ""]

QueuedAt(t) == {<<r, i>> \in Reqs \X (1..MaxTasks) : i <= Len(req[r].bg) /\ req[r].bg[i] = t}

\* the positions of step s among the steps invoked for task t
InvokedAt(t, s) == {i \in 1..Len(run[t].steps) : run[t].steps[i] = s}

\* C12: the run of a task is queued or begun at most once, each step is
\* invoked at most once per task, a task that has failed is neither queued
\* nor running, and a task is the running task of at most one request, where
\* it is suspended on a single step.
C12_AtMostOnce ==
    \A t \in TaskIds :
        /\ Cardinality(QueuedAt(t)) + (IF RunBegun(t) THEN 1 ELSE 0) <= 1
        /\ \A s \in {"convert", "transcribe", "speakers", "classify", "commit"} :
              Cardinality(InvokedAt(t, s)) <= 1
        /\ run[t].failed # "none" =>
              QueuedAt(t) = {} /\ \A r \in Reqs : req[r].running # t
        /\ Cardinality({r \in Reqs : req[r].running = t}) <= 1
        /\ \A r \in Reqs :
              req[r].running = t => run[t].pc \in {"transcribing", "classifying"}

\* C12 witness: the speaker analysis of a task has failed after its
\* conversion and transcription, and the task was left there
C12_Witness ==
    \E t \in TaskIds :
        /\ run[t].failed = "speakers"
        /\ run[t].steps = <<"convert", "transcribe", "speakers">>
        /\ Quiescent

\* the tasks request r created
TasksOf(r) == {t \in TaskIds : run[t].owner = r}

\* the run of task t was handed to add_task
Scheduled(t) == run[t].pc = "scheduled" \/ RunBegun(t)

\* C17: an accepted batch of n files is answered 202 with n entries that
\* carry n distinct task ids, the i-th entry the id created for the i-th
\* file; a file whose conversion failed is in status error with an error
\* entry and its run is not scheduled; every other file was converted and its
\* run was scheduled.
C17_BatchPerFile ==
    \A r \in Reqs :
        (req[r].pc = "responded" /\ req[r].kind = "batch" /\ ~Refused(req[r])) =>
            LET n == Len(req[r].files)
                b == req[r].body
            IN
            /\ req[r].code = 202
            /\ Len(b) = n
            /\ Cardinality(TasksOf(r)) = n
            /\ {b[i].task_id : i \in 1..n} = TasksOf(r)
            /\ \A i, j \in 1..n : i < j => b[i].task_id < b[j].task_id
            /\ \A i \in 1..n :
                  LET t == b[i].task_id IN
                  IF b[i].error # ""
                  THEN /\ run[t].failed = "convert"
                       /\ progress[t].status = "error"
                       /\ ~Scheduled(t)
                       /\ run[t].steps = <<"convert">>
                  ELSE /\ Succeeded(t, "convert")
                       /\ Scheduled(t)

\* C17 witness: a batch of three files was accepted, the conversion of one
\* file failed and the runs of the two others were scheduled
C17_Witness ==
    \E r \in Reqs :
        /\ req[r].pc = "responded" /\ req[r].kind = "batch" /\ req[r].code = 202
        /\ Len(req[r].body) = 3
        /\ req[r].body[2].error # ""
        /\ req[r].body[1].error = "" /\ req[r].body[3].error = ""

\* C18: once a task has status completed or error, no step writes to its
\* progress-store entry again.
C18_TerminalAbsorbing ==
    [][\A t \in TaskIds :
          Terminal(t) => (progress'[t] = progress[t] /\ log'[t] = log[t])]_vars

\* C18 witness: the conversion of one file of a batch has failed, and the
\* run of another file of that batch has completed afterwards
C18_Witness ==
    \E t, u \in Admitted :
        /\ t < u
        /\ run[t].owner = run[u].owner
        /\ run[t].failed = "convert"
        /\ progress[u].status = "completed"

\* C19: the stored stage of every task is one of 0..4.
C19_StageInRange == \A t \in Admitted : progress[t].stage \in 0..4

\* C20: a task has status completed exactly when its stage is 4.
C20_CompletedIffStage4 ==
    \A t \in Admitted : (progress[t].status = "completed") <=> (progress[t].stage = 4)

\* C20 witness: a file of a batch is at stage 4, completed, while another
\* task is at a lower stage
C20_Witness ==
    \E t, u \in Admitted :
        /\ req[run[t].owner].kind = "batch"
        /\ progress[t] = [stage |-> 4, status |-> "completed", error_detail |-> ""]
        /\ progress[u].stage \in 1..3

\* the record asked for by the last export exists and belongs to the asker
Owned == out.id \in 1..Len(db) /\ db[out.id].user_id = out.user

\* the starts of a list of segments
Starts(segs) == {segs[i].start : i \in 1..Len(segs)}

\* C13: a csv export of a record one of whose analysis segments has a start
\* that no transcript segment has is answered with an error and no content.
C13_UnmatchedAnalysisRaises ==
    (out.format = "csv" /\ Owned /\
     ~(Starts(db[out.id].analysis.segments) \subseteq Starts(db[out.id].transcript.segments)))
        => (out.code = 500 /\ out.body = << >>)

\* C14: a csv export of a record every transcript segment of which has an
\* analysis segment with the same start emits one row per transcript
\* segment, in transcript order, with the phase and sentiment of an analysis
\* segment with that start; a csv export of any other record fails and emits
\* nothing.
C14_CsvRows ==
    (out.format = "csv" /\ Owned) =>
        LET ts == db[out.id].transcript.segments
            an == db[out.id].analysis.segments
        IN
        IF Starts(ts) \subseteq Starts(an)
        THEN /\ out.code = 200
             /\ Len(out.body) = Len(ts)
             /\ \A i \in 1..Len(ts) :
                   /\ out.body[i].speaker = ts[i].speaker
                   /\ out.body[i].text = ts[i].text
                   /\ out.body[i].timestamp = (ts[i].start + 5) \div 10
                   /\ \E j \in 1..Len(an) :
                         /\ an[j].start = ts[i].start
                         /\ out.body[i].phase = an[j].classification.phase
                         /\ out.body[i].sentiment = an[j].classification.sentiment
        ELSE out.code = 500 /\ out.body = << >>

\* C14 witness: a csv export has emitted two rows of different phases
C14_Witness ==
    /\ out.format = "csv" /\ out.code = 200
    /\ Len(out.body) = 2
    /\ out.body[1].phase # out.body[2].phase

\* C15: an export of a record that does not exist or belongs to another user
\* is answered 404 without content, whatever the format; an export in an
\* unsupported format of a record of the asker is answered 400; and 404 and
\* 400 are answered in no other case.
C15_NotFoundOrBadRequest ==
    out.code # 0 =>
        /\ ~Owned => (out.code = 404 /\ out.body = << >>)
        /\ (Owned /\ out.format \notin {"json", "csv", "txt"}) =>
              (out.code = 400 /\ out.body = << >>)
        /\ out.code = 404 => ~Owned
        /\ out.code = 400 => (Owned /\ out.format \notin {"json", "csv", "txt"})

\* C15 witness: the record of another user was asked for in an unsupported
\* format and the answer is 404
C15_Witness ==
    /\ out.id = 1 /\ out.format = "xml" /\ out.user # db[1].user_id
    /\ out.code = 404

\* C16: a json export of a record of the asker succeeds, leaves the table as
\* it was, and its text parses back to the transcript segments (same number,
\* same order) and to the analysis summary of the stored record.
C16_JsonRoundTrip ==
    [][(out'.format = "json" /\ Owned') =>
          /\ db' = db
          /\ out'.code = 200
          /\ Loads(out'.body).transcript.segments = db[out'.id].transcript.segments
          /\ Loads(out'.body).analysis.summary = db[out'.id].analysis.summary]_vars

\* C16 witness: a record with two transcript segments, one of them starting
\* at 1.254 s, and a summary with both mappings filled was exported as json
C16_Witness ==
    /\ out.format = "json" /\ out.code = 200
    /\ Len(db[1].transcript.segments) = 2
    /\ 1254 \in Starts(db[1].transcript.segments)
    /\ db[1].analysis.summary.duration = 2504

====
